---- MODULE Spec2Model ----
(***************************************************************************)
(* Falling MIDI trainer: the timeline engine (tempo map, tick clock, note  *)
(* pairing, chord grouping) and the frame-driven pause/resume session.     *)
(*                                                                         *)
(* Time.  The program's seconds are floats; here a time is an integer      *)
(* number of milliseconds (pygame's clock.tick returns whole milliseconds, *)
(* and the file catalogue below is chosen so that every tick position is a *)
(* whole number of milliseconds).                                          *)
(***************************************************************************)
EXTENDS Integers, Sequences, FiniteSets, TLC

(***************************************************************************)
(* Bounds of the model.                                                    *)
(***************************************************************************)
MaxPending == 1        \* device messages waiting in the input port
MaxGameTime == 9       \* half seconds: a frame's dt keeps game_time + dt within it
MaxEvents == 4         \* messages of the track fed to the parser

(***************************************************************************)
(* Program constants (config.py, parsing.py, app.py).                      *)
(***************************************************************************)
DEFAULT_TEMPO == 500000        \* build_tempo_map: changes = [(0, 500_000)]
HIT_WINDOW_MS == 80            \* config.HIT_WINDOW_SEC = 0.08
TAIL_MS == 2000                \* run: game_time > total_length + 2
MIDI_PATH == "song.mid"        \* config.MIDI_PATH
REVERB_MIX == 350              \* config.REVERB_MIX = 0.35, in thousandths

(***************************************************************************)
(* MIDI messages, as mido hands them over: type, delta time in ticks, and  *)
(* the fields of the type.                                                 *)
(***************************************************************************)
NoteOn(t, ch, n, v) ==
    [type |-> "note_on", time |-> t, channel |-> ch, note |-> n,
     velocity |-> v, tempo |-> 0]
NoteOff(t, ch, n) ==
    [type |-> "note_off", time |-> t, channel |-> ch, note |-> n,
     velocity |-> 64, tempo |-> 0]
SetTempo(t, us) ==
    [type |-> "set_tempo", time |-> t, channel |-> 0, note |-> 0,
     velocity |-> 0, tempo |-> us]
EndOfTrack(t) ==
    [type |-> "end_of_track", time |-> t, channel |-> 0, note |-> 0,
     velocity |-> 0, tempo |-> 0]

Channels == {0, 1}
Notes == {60, 64}
Keys == Channels \X Notes

(***************************************************************************)
(* Small helpers on sequences.                                             *)
(***************************************************************************)
RECURSIVE Concat(_)
Concat(ss) == IF ss = <<>> THEN <<>> ELSE Head(ss) \o Concat(Tail(ss))

RECURSIVE MaxOf(_, _)
MaxOf(s, default) ==
    IF s = <<>> THEN default
    ELSE LET m == MaxOf(Tail(s), default)
         IN  IF Tail(s) = <<>> THEN Head(s)
             ELSE IF Head(s) >= m THEN Head(s) ELSE m

\* utils/math_utils.py: clamp
clamp(value, min_value, max_value) ==
    IF value < min_value THEN min_value
    ELSE IF value > max_value THEN max_value
    ELSE value

Max2(a, b) == IF a >= b THEN a ELSE b

(***************************************************************************)
(* list.sort(key=item[0]) / list.sort(key=item[1]): a stable sort.  x goes *)
(* after every element whose key is <= its own.                            *)
(***************************************************************************)
\* an insertion that puts x before the elements whose key equals its own
RECURSIVE InsertByKey_before(_, _, _)
InsertByKey_before(sorted, x, k) ==
    IF sorted = <<>> THEN <<x>>
    ELSE IF Head(sorted)[k] < x[k]
         THEN <<Head(sorted)>> \o InsertByKey_before(Tail(sorted), x, k)
         ELSE <<x>> \o sorted

RECURSIVE InsertByKey(_, _, _)
InsertByKey(sorted, x, k) ==
    IF sorted = <<>> THEN <<x>>
    ELSE IF Head(sorted)[k] <= x[k]
         THEN <<Head(sorted)>> \o InsertByKey(Tail(sorted), x, k)
         ELSE <<x>> \o sorted

\* a sort left out: the list stays in the order it was filled in
StableSortByKey_none(s, k) == s

RECURSIVE StableSortByKey(_, _)
StableSortByKey(s, k) ==
    IF s = <<>> THEN <<>>
    ELSE InsertByKey(StableSortByKey(SubSeq(s, 1, Len(s) - 1), k), s[Len(s)], k)

(***************************************************************************)
(* mido.tick2second(tick, ticks_per_beat, tempo)                           *)
(*   = tick * tempo * 1e-6 / ticks_per_beat seconds, here in milliseconds. *)
(***************************************************************************)
tick2second(tick, tpq, tempo) == (tick * tempo) \div (1000 * tpq)

(***************************************************************************)
(* build_tempo_map                                                         *)
(***************************************************************************)
\* the (abs_tick, tempo) pairs of one track's set_tempo messages
RECURSIVE TrackTempoChanges(_, _)
TrackTempoChanges(track, abs_tick) ==
    IF track = <<>> THEN <<>>
    ELSE LET msg == Head(track)
             at  == abs_tick + msg.time
         IN  (IF msg.type = "set_tempo" THEN << <<at, msg.tempo>> >> ELSE <<>>)
             \o TrackTempoChanges(Tail(track), at)

TempoChanges(tracks) ==
    << <<0, DEFAULT_TEMPO>> >>
      \o Concat([i \in 1..Len(tracks) |-> TrackTempoChanges(tracks[i], 0)])

\* a collapse that keeps the first entry of a run of equal tick
RECURSIVE Dedup_first(_, _)
Dedup_first(changes, dedup) ==
    IF changes = <<>> THEN dedup
    ELSE LET c == Head(changes)
         IN  IF dedup # <<>> /\ dedup[Len(dedup)][1] = c[1]
             THEN Dedup_first(Tail(changes), dedup)
             ELSE Dedup_first(Tail(changes), Append(dedup, c))

\* collapse runs of equal tick, the last entry of a run replacing the others
RECURSIVE Dedup(_, _)
Dedup(changes, dedup) ==
    IF changes = <<>> THEN dedup
    ELSE LET c == Head(changes)
         IN  IF dedup # <<>> /\ dedup[Len(dedup)][1] = c[1]
             THEN Dedup(Tail(changes), [dedup EXCEPT ![Len(dedup)] = c])
             ELSE Dedup(Tail(changes), Append(dedup, c))

RECURSIVE Accumulate(_, _, _, _, _)
Accumulate(rest, tpq, last_tick, last_tempo, cumulative_seconds) ==
    IF rest = <<>> THEN <<>>
    ELSE LET tick  == Head(rest)[1]
             tempo == Head(rest)[2]
             cum   == cumulative_seconds + tick2second(tick - last_tick, tpq, last_tempo)
         IN  << <<tick, tempo, cum>> >> \o Accumulate(Tail(rest), tpq, tick, tempo, cum)

build_tempo_map(mid) ==
    LET dedup == Dedup(StableSortByKey(TempoChanges(mid.tracks), 1), <<>>)
    IN  << <<dedup[1][1], dedup[1][2], 0>> >>
          \o Accumulate(Tail(dedup), mid.ticks_per_beat, dedup[1][1], dedup[1][2], 0)

(***************************************************************************)
(* ticks_to_seconds: the last entry, scanning from the front, whose tick   *)
(* is <= abs_tick (index 0 when there is none).                            *)
(***************************************************************************)
\* a scan that stops at the first entry it accepts
ScanIndex_first(tempo_map, abs_tick, i, index) == index

RECURSIVE ScanIndex(_, _, _, _)
ScanIndex(tempo_map, abs_tick, i, index) ==
    IF i > Len(tempo_map) THEN index
    ELSE IF tempo_map[i][1] <= abs_tick
         THEN ScanIndex(tempo_map, abs_tick, i + 1, i)
         ELSE index

ticks_to_seconds(abs_tick, tempo_map, tpq) ==
    LET e == tempo_map[ScanIndex(tempo_map, abs_tick, 1, 1)]
    IN  e[3] + tick2second(abs_tick - e[1], tpq, e[2])

(***************************************************************************)
(* parse_notes, one iteration of its loop over the track's messages.  The  *)
(* loop's state: abs_tick, note_on_events (a pending list per (channel,    *)
(* note) key, empty by default), notes (the emitted entries).              *)
(***************************************************************************)
ParseStart ==
    [abs_tick |-> 0, note_on_events |-> [k \in Keys |-> <<>>], notes |-> <<>>]

\* a pop that takes the newest pending note-on: note_on_events[key].pop()
PopPending_newest(queue) ==
    [item |-> queue[Len(queue)], rest |-> SubSeq(queue, 1, Len(queue) - 1)]

\* note_on_events[key].pop(0)
PopPending(queue) == [item |-> Head(queue), rest |-> Tail(queue)]

IsNoteOn(msg) == msg.type = "note_on" /\ msg.velocity > 0
IsNoteOff(msg) ==
    /\ msg.type \in {"note_off", "note_on"}
    /\ (msg.type = "note_off" \/ msg.velocity = 0)

\* an iteration that takes the entry's velocity from the closing event
ParseMsg_closing_velocity(st, msg, tempo_map, tpq) ==
    LET abs_tick     == st.abs_tick + msg.time
        current_time == ticks_to_seconds(abs_tick, tempo_map, tpq)
        key          == <<msg.channel, msg.note>>
    IN  IF IsNoteOn(msg)
        THEN [st EXCEPT !.abs_tick = abs_tick,
                        !.note_on_events[key] = Append(@, <<current_time, msg.velocity>>)]
        ELSE IF IsNoteOff(msg) /\ st.note_on_events[key] # <<>>
        THEN LET p == PopPending(st.note_on_events[key])
             IN  [st EXCEPT !.abs_tick = abs_tick,
                            !.note_on_events[key] = p.rest,
                            !.notes = Append(@, <<msg.note, p.item[1], current_time, msg.velocity>>)]
        ELSE [st EXCEPT !.abs_tick = abs_tick]

\* an iteration that emits an entry of no length for a closing event that
\* finds nothing open
ParseMsg_orphan(st, msg, tempo_map, tpq) ==
    LET abs_tick     == st.abs_tick + msg.time
        current_time == ticks_to_seconds(abs_tick, tempo_map, tpq)
        key          == <<msg.channel, msg.note>>
    IN  IF IsNoteOn(msg)
        THEN [st EXCEPT !.abs_tick = abs_tick,
                        !.note_on_events[key] = Append(@, <<current_time, msg.velocity>>)]
        ELSE IF IsNoteOff(msg) /\ st.note_on_events[key] # <<>>
        THEN LET p == PopPending(st.note_on_events[key])
             IN  [st EXCEPT !.abs_tick = abs_tick,
                            !.note_on_events[key] = p.rest,
                            !.notes = Append(@, <<msg.note, p.item[1], current_time, p.item[2]>>)]
        ELSE IF IsNoteOff(msg)
        THEN [st EXCEPT !.abs_tick = abs_tick,
                        !.notes = Append(@, <<msg.note, current_time, current_time, msg.velocity>>)]
        ELSE [st EXCEPT !.abs_tick = abs_tick]

ParseMsg(st, msg, tempo_map, tpq) ==
    LET abs_tick     == st.abs_tick + msg.time
        current_time == ticks_to_seconds(abs_tick, tempo_map, tpq)
        key          == <<msg.channel, msg.note>>
    IN  IF IsNoteOn(msg)
        THEN [st EXCEPT !.abs_tick = abs_tick,
                        !.note_on_events[key] = Append(@, <<current_time, msg.velocity>>)]
        ELSE IF IsNoteOff(msg) /\ st.note_on_events[key] # <<>>
        THEN LET p == PopPending(st.note_on_events[key])
             IN  [st EXCEPT !.abs_tick = abs_tick,
                            !.note_on_events[key] = p.rest,
                            !.notes = Append(@, <<msg.note, p.item[1], current_time, p.item[2]>>)]
        ELSE [st EXCEPT !.abs_tick = abs_tick]

RECURSIVE ParseTrack(_, _, _, _)
ParseTrack(st, track, tempo_map, tpq) ==
    IF track = <<>> THEN st
    ELSE ParseTrack(ParseMsg(st, Head(track), tempo_map, tpq), Tail(track), tempo_map, tpq)

\* the tail of parse_notes: sort by start, total_length = max end (default 0)
FinishParse(notes) ==
    LET sorted == StableSortByKey(notes, 2)
    IN  [notes |-> sorted,
         total_length |-> MaxOf([i \in 1..Len(sorted) |-> sorted[i][3]], 0)]

(***************************************************************************)
(* The files on disk.  mido.MidiFile(path) raises for a path that cannot   *)
(* be read or is not a well-formed file (readable = FALSE); otherwise it   *)
(* gives ticks_per_beat and the tracks.                                    *)
(***************************************************************************)
TPQ == 25      \* ticks per beat of the catalogue's files: 1 tick = 20 ms at 120 bpm

Unreadable == [readable |-> FALSE, ticks_per_beat |-> TPQ, tracks |-> <<>>]
MidiFileOf(tracks) == [readable |-> TRUE, ticks_per_beat |-> TPQ, tracks |-> tracks]

\* two tracks; track 0: the chord {60, 64} at 0 ms (64 one tick late), then 60 at
\* 1000 ms; track 1: 64 at 1000 ms
GoodFile ==
    MidiFileOf(<<
        << NoteOn(0, 0, 60, 100), NoteOn(1, 0, 64, 90), NoteOff(24, 0, 60),
           NoteOn(0, 0, 64, 0), NoteOn(25, 0, 60, 80), NoteOff(25, 0, 60),
           EndOfTrack(0) >>,
        << NoteOn(50, 0, 64, 100), NoteOff(25, 0, 64), EndOfTrack(0) >> >>)
\* one track without a note
SilentFile == MidiFileOf(<< << SetTempo(0, 250000), EndOfTrack(0) >> >>)
\* a header that announces no track
EmptyFile == MidiFileOf(<<>>)
\* the fallback file: one track, 60 from 500 ms to 1000 ms
SongFile ==
    MidiFileOf(<< << NoteOn(25, 0, 60, 100), NoteOff(25, 0, 60), EndOfTrack(0) >> >>)

\* one track, two chords half a second apart: 60 from 500 ms to 980 ms, 60 again
\* from 1000 ms to 1500 ms
DenseFile ==
    MidiFileOf(<< << NoteOn(25, 0, 60, 100), NoteOff(24, 0, 60), NoteOn(1, 0, 60, 100),
                     NoteOff(25, 0, 60), EndOfTrack(0) >> >>)

Paths == {"good.mid", "silent.mid", "empty.mid", "bad.mid", "dense.mid", MIDI_PATH}

MidiFile(path) ==
    CASE path = "good.mid"   -> GoodFile
      [] path = "silent.mid" -> SilentFile
      [] path = "empty.mid"  -> EmptyFile
      [] path = "dense.mid"  -> DenseFile
      [] path = MIDI_PATH    -> SongFile
      [] OTHER               -> Unreadable

(***************************************************************************)
(* parse_notes with an explicit track index.  A raise is the record        *)
(* [ok |-> FALSE, error], which carries no notes and no length.            *)
(***************************************************************************)
\* the range test that accepts a negative index
TrackIndexInRange_upper(track_index, n_tracks) == track_index < n_tracks

TrackIndexInRange(track_index, n_tracks) ==
    ~(track_index < 0 \/ track_index >= n_tracks)

\* tracks[track_index] of a Python list: a negative index counts from the end
ListIndex(n, i) == IF i < 0 THEN n + i + 1 ELSE i + 1

\* a parse that builds its tempo map from the selected track alone
parse_file_own_tempo(mid, track_index) ==
    IF ~mid.readable THEN [ok |-> FALSE, error |-> "OSError"]
    ELSE IF ~TrackIndexInRange(track_index, Len(mid.tracks))
    THEN [ok |-> FALSE, error |-> "ValueError"]
    ELSE IF ListIndex(Len(mid.tracks), track_index) \notin 1..Len(mid.tracks)
    THEN [ok |-> FALSE, error |-> "IndexError"]
    ELSE LET own == mid.tracks[ListIndex(Len(mid.tracks), track_index)]
             tempo_map == build_tempo_map([mid EXCEPT !.tracks = <<own>>])
             st == ParseTrack(ParseStart, own, tempo_map, mid.ticks_per_beat)
             fin == FinishParse(st.notes)
         IN  [ok |-> TRUE, notes |-> fin.notes,
              total_length |-> fin.total_length,
              track_count |-> Len(mid.tracks)]

parse_file(mid, track_index) ==
    IF ~mid.readable THEN [ok |-> FALSE, error |-> "OSError"]
    ELSE IF ~TrackIndexInRange(track_index, Len(mid.tracks))
    THEN [ok |-> FALSE, error |-> "ValueError"]
    ELSE IF ListIndex(Len(mid.tracks), track_index) \notin 1..Len(mid.tracks)
    THEN [ok |-> FALSE, error |-> "IndexError"]
    ELSE LET tempo_map == build_tempo_map(mid)
             st == ParseTrack(ParseStart,
                              mid.tracks[ListIndex(Len(mid.tracks), track_index)],
                              tempo_map, mid.ticks_per_beat)
             fin == FinishParse(st.notes)
         IN  [ok |-> TRUE, notes |-> fin.notes,
              total_length |-> fin.total_length,
              track_count |-> Len(mid.tracks)]

parse_notes(path, track_index) == parse_file(MidiFile(path), track_index)

(***************************************************************************)
(* group_chords                                                            *)
(***************************************************************************)
Abs(x) == IF x < 0 THEN 0 - x ELSE x

\* an inner while that measures each entry against the entry before it
RECURSIVE ChordEnd_gap(_, _, _, _)
ChordEnd_gap(notes, cursor, base_time, window) ==
    IF cursor <= Len(notes) /\ Abs(notes[cursor][2] - base_time) <= window
    THEN ChordEnd_gap(notes, cursor + 1, notes[cursor][2], window)
    ELSE cursor

\* an inner while whose test is strict: abs(...) < window
RECURSIVE ChordEnd_strict(_, _, _, _)
ChordEnd_strict(notes, cursor, base_time, window) ==
    IF cursor <= Len(notes) /\ Abs(notes[cursor][2] - base_time) < window
    THEN ChordEnd_strict(notes, cursor + 1, base_time, window)
    ELSE cursor

\* the inner while: the cursor after the last entry within the window of base_time
RECURSIVE ChordEnd(_, _, _, _)
ChordEnd(notes, cursor, base_time, window) ==
    IF cursor <= Len(notes) /\ Abs(notes[cursor][2] - base_time) <= window
    THEN ChordEnd(notes, cursor + 1, base_time, window)
    ELSE cursor

\* an outer while that resumes one entry after the cursor
RECURSIVE GroupFrom_skip(_, _, _)
GroupFrom_skip(notes, index, window) ==
    IF index > Len(notes) THEN <<>>
    ELSE LET cursor == ChordEnd(notes, index, notes[index][2], window)
         IN  <<SubSeq(notes, index, cursor - 1)>> \o GroupFrom_skip(notes, cursor + 1, window)

RECURSIVE GroupFrom(_, _, _)
GroupFrom(notes, index, window) ==
    IF index > Len(notes) THEN <<>>
    ELSE LET cursor == ChordEnd(notes, index, notes[index][2], window)
         IN  <<SubSeq(notes, index, cursor - 1)>> \o GroupFrom(notes, cursor, window)

group_chords(notes, window) == GroupFrom(notes, 1, window)

(***************************************************************************)
(* GameState (game/state.py).  A method is an operator from the object's   *)
(* fields to [state, raised]: the fields when the method returned or when  *)
(* the exception left it.                                                  *)
(***************************************************************************)
\* GameState.__init__ (files is kept beside it)
NewGameState ==
    [selected_file_idx |-> 0, current_path |-> "None", track_count |-> 0,
     track_idx |-> 0, chords |-> <<>>, total_length |-> 0,
     game_time |-> 0, chord_idx |-> 0, paused |-> FALSE]

Returned(s) == [state |-> s, raised |-> FALSE]
Raised(s) == [state |-> s, raised |-> TRUE]

\* a load that keeps the cursor and the clock of the session before it
load_current_keeps(fs, s) ==
    LET path == IF fs # <<>> THEN fs[s.selected_file_idx + 1] ELSE MIDI_PATH
        s1   == [s EXCEPT !.current_path = path]
        mid_meta == MidiFile(path)
    IN  IF ~mid_meta.readable THEN Raised(s1)
        ELSE LET count == Len(mid_meta.tracks)
                 s2 == [s1 EXCEPT !.track_count = count,
                                  !.track_idx = clamp(s.track_idx, 0, Max2(0, count - 1))]
                 parsed == parse_notes(path, s2.track_idx)
             IN  IF ~parsed.ok THEN Raised(s2)
                 ELSE Returned([s2 EXCEPT
                        !.total_length = parsed.total_length,
                        !.chords = group_chords(parsed.notes, HIT_WINDOW_MS)])

\* a load that adds the parsed chords to the ones it holds
load_current_appends(fs, s) ==
    LET path == IF fs # <<>> THEN fs[s.selected_file_idx + 1] ELSE MIDI_PATH
        s1   == [s EXCEPT !.current_path = path]
        mid_meta == MidiFile(path)
    IN  IF ~mid_meta.readable THEN Raised(s1)
        ELSE LET count == Len(mid_meta.tracks)
                 s2 == [s1 EXCEPT !.track_count = count,
                                  !.track_idx = clamp(s.track_idx, 0, Max2(0, count - 1))]
                 parsed == parse_notes(path, s2.track_idx)
             IN  IF ~parsed.ok THEN Raised(s2)
                 ELSE Returned([s2 EXCEPT
                        !.total_length = Max2(@, parsed.total_length),
                        !.chords = @ \o group_chords(parsed.notes, HIT_WINDOW_MS),
                        !.game_time = 0,
                        !.chord_idx = 0,
                        !.paused = FALSE])

load_current(fs, s) ==
    LET path == IF fs # <<>> THEN fs[s.selected_file_idx + 1] ELSE MIDI_PATH
        s1   == [s EXCEPT !.current_path = path]
        mid_meta == MidiFile(path)
    IN  IF ~mid_meta.readable THEN Raised(s1)
        ELSE LET count == Len(mid_meta.tracks)
                 s2 == [s1 EXCEPT !.track_count = count,
                                  !.track_idx = clamp(s.track_idx, 0, Max2(0, count - 1))]
                 parsed == parse_notes(path, s2.track_idx)
             IN  IF ~parsed.ok THEN Raised(s2)
                 ELSE Returned([s2 EXCEPT
                        !.total_length = parsed.total_length,
                        !.chords = group_chords(parsed.notes, HIT_WINDOW_MS),
                        !.game_time = 0,
                        !.chord_idx = 0,
                        !.paused = FALSE])

\* a next_track that goes from the last track round to the first
next_track_wraps(fs, s) ==
    IF s.track_count # 0
    THEN load_current(fs, [s EXCEPT !.track_idx = (s.track_idx + 1) % s.track_count])
    ELSE Returned(s)

next_track(fs, s) ==
    IF s.track_count # 0
    THEN load_current(fs, [s EXCEPT !.track_idx = clamp(s.track_idx + 1, 0, s.track_count - 1)])
    ELSE Returned(s)

previous_track(fs, s) ==
    IF s.track_count # 0
    THEN load_current(fs, [s EXCEPT !.track_idx = clamp(s.track_idx - 1, 0, s.track_count - 1)])
    ELSE Returned(s)

select_file(fs, s, index) ==
    load_current(fs, [s EXCEPT !.selected_file_idx = index,
                               !.track_idx = clamp(s.track_idx, 0, Max2(0, s.track_count - 1))])

(***************************************************************************)
(* TrainerApp._handle_topbar_click on the chip of file idx: the pre-read   *)
(* of the track count is inside try/except, load_current is not.           *)
(***************************************************************************)
chip_click(fs, s, idx) ==
    LET s1 == [s EXCEPT !.selected_file_idx = idx]
        mid_tmp == MidiFile(fs[idx + 1])
        s2 == IF mid_tmp.readable
              THEN [s1 EXCEPT !.track_count = Len(mid_tmp.tracks),
                              !.track_idx = clamp(s.track_idx, 0,
                                                  Max2(0, Len(mid_tmp.tracks) - 1))]
              ELSE s1
    IN  load_current(fs, s2)

(***************************************************************************)
(* TrainerApp._initial_load: load_current, and when it raises the fallback *)
(* file's track 0.  raised: the fallback raised too and no app exists.     *)
(***************************************************************************)
initial_load(fs) ==
    LET first == load_current(fs, NewGameState)
        fallback == parse_notes(MIDI_PATH, 0)
        s1 == IF ~first.raised THEN first.state
              ELSE [first.state EXCEPT
                      !.current_path = MIDI_PATH,
                      !.chords = group_chords(fallback.notes, HIT_WINDOW_MS),
                      !.total_length = fallback.total_length,
                      !.track_count = fallback.track_count,
                      !.track_idx = 0]
    IN  IF first.raised /\ ~fallback.ok THEN Raised(first.state)
        ELSE Returned(IF s1.track_count # 0
                      THEN [s1 EXCEPT !.track_idx = clamp(s1.track_idx, 0, s1.track_count - 1)]
                      ELSE s1)

(***************************************************************************)
(* TrainerApp._update_game_time                                            *)
(***************************************************************************)
RequiredNotes(s) ==
    IF s.chord_idx < Len(s.chords)
    THEN {s.chords[s.chord_idx + 1][i][1] : i \in 1..Len(s.chords[s.chord_idx + 1])}
    ELSE {}

RequiredTime(s) ==
    IF s.chord_idx < Len(s.chords)
    THEN s.chords[s.chord_idx + 1][1][2]
    ELSE s.total_length

\* a checkpoint test that does not wait for the chord's time
CheckpointReached_early(s) == s.chord_idx < Len(s.chords)

CheckpointReached(s) ==
    s.chord_idx < Len(s.chords) /\ s.game_time >= RequiredTime(s)

\* a matcher that takes a superset of the chord in strict mode too
ChordOk_lenient(strict, held, required_notes) == required_notes \subseteq held

ChordOk(strict, held, required_notes) ==
    IF strict THEN held = required_notes ELSE required_notes \subseteq held

\* a matcher that consumes the chord but resumes the clock one frame later
update_game_time_deferred(s, delta, held, strict) ==
    LET chord_ok == ChordOk(strict, held, RequiredNotes(s))
    IN  IF CheckpointReached(s)
        THEN [s EXCEPT !.paused = ~chord_ok,
                       !.chord_idx = IF chord_ok THEN @ + 1 ELSE @]
        ELSE [s EXCEPT !.paused = FALSE, !.game_time = @ + delta]

\* a matcher that shows the pause and lets the clock run on
update_game_time_running(s, delta, held, strict) ==
    LET chord_ok == ChordOk(strict, held, RequiredNotes(s))
        s1 == IF CheckpointReached(s)
              THEN [s EXCEPT !.paused = ~chord_ok,
                             !.chord_idx = IF chord_ok THEN @ + 1 ELSE @]
              ELSE [s EXCEPT !.paused = FALSE]
    IN  [s1 EXCEPT !.game_time = @ + delta]

\* a matcher whose clock stops with the last chord
update_game_time_stops(s, delta, held, strict) ==
    LET chord_ok == ChordOk(strict, held, RequiredNotes(s))
        s1 == IF CheckpointReached(s)
              THEN [s EXCEPT !.paused = ~chord_ok,
                             !.chord_idx = IF chord_ok THEN @ + 1 ELSE @]
              ELSE [s EXCEPT !.paused = FALSE]
    IN  IF ~s1.paused /\ s1.chord_idx < Len(s1.chords)
        THEN [s1 EXCEPT !.game_time = @ + delta] ELSE s1

\* a matcher that caps the frame's delta at one second
update_game_time_capped(s, delta, held, strict) ==
    LET chord_ok == ChordOk(strict, held, RequiredNotes(s))
        s1 == IF CheckpointReached(s)
              THEN [s EXCEPT !.paused = ~chord_ok,
                             !.chord_idx = IF chord_ok THEN @ + 1 ELSE @]
              ELSE [s EXCEPT !.paused = FALSE]
    IN  IF ~s1.paused
        THEN [s1 EXCEPT !.game_time = @ + (IF delta > 1000 THEN 1000 ELSE delta)]
        ELSE s1

\* a matcher that consumes, with the matched chord, every later chord whose
\* time the clock has passed
update_game_time_catchup(s, delta, held, strict) ==
    LET chord_ok == ChordOk(strict, held, RequiredNotes(s))
        passed == Cardinality({c \in 1..Len(s.chords) : s.chords[c][1][2] <= s.game_time})
        s1 == IF CheckpointReached(s)
              THEN [s EXCEPT !.paused = ~chord_ok,
                             !.chord_idx = IF chord_ok THEN Max2(@ + 1, passed) ELSE @]
              ELSE [s EXCEPT !.paused = FALSE]
    IN  IF ~s1.paused THEN [s1 EXCEPT !.game_time = @ + delta] ELSE s1

update_game_time(s, delta, held, strict) ==
    LET chord_ok == ChordOk(strict, held, RequiredNotes(s))
        s1 == IF CheckpointReached(s)
              THEN [s EXCEPT !.paused = ~chord_ok,
                             !.chord_idx = IF chord_ok THEN @ + 1 ELSE @]
              ELSE [s EXCEPT !.paused = FALSE]
    IN  IF ~s1.paused THEN [s1 EXCEPT !.game_time = @ + delta] ELSE s1

\* an end test without the guard on the total length
Finished_any_length(s) == s.game_time > s.total_length + TAIL_MS

\* TrainerApp.run: the test that ends the loop
Finished(s) == s.total_length # 0 /\ s.game_time > s.total_length + TAIL_MS

(***************************************************************************)
(* TrainerApp._process_midi: every pending message, in order, applied to   *)
(* the set of held pitches.                                                *)
(***************************************************************************)
ApplyMidi(held, msg) ==
    IF IsNoteOn(msg) THEN held \cup {msg.note}
    ELSE IF IsNoteOff(msg) THEN held \ {msg.note}
    ELSE held

RECURSIVE ApplyPending(_, _)
ApplyPending(held, msgs) ==
    IF msgs = <<>> THEN held
    ELSE ApplyPending(ApplyMidi(held, Head(msgs)), Tail(msgs))

(***************************************************************************)
(* The running application (TrainerApp, app.py).                           *)
(*   files, STRICT   the MIDI folder's listing and config.STRICT           *)
(*   state           the GameState object                                  *)
(*   pressed         the pitches held on the device                        *)
(*   inport          the device messages not yet read (iter_pending)       *)
(*   dt              the frame's time delta, from clock.tick               *)
(*   pc, running     the position in the run loop and its loop variable    *)
(*   stale           how many messages of inport were already waiting when *)
(*                   the frame began (a history variable)                  *)
(* The parser and the call harness further down have their own variables.  *)
(***************************************************************************)
VARIABLES files, STRICT, state, pressed, inport, dt, pc, running, stale,
          track, pstate, call, ret,
          reverb_mix, tone_cache, pending_tones, warmups, main

sessionVars == <<files, STRICT, state, pressed, inport, dt, pc, running, stale>>
parseVars == <<track, pstate>>
callVars == <<call, ret>>
toneVars == <<reverb_mix, tone_cache, pending_tones, warmups, main>>
vars == <<sessionVars, parseVars, callVars, toneVars>>

\* the folder listings tried: an empty folder, a folder whose first file loads,
\* a folder whose first file cannot be read
Catalogues ==
    { <<>>,
      <<"good.mid", "silent.mid", "empty.mid", "bad.mid">>,
      <<"bad.mid", "good.mid">> }

\* clock.tick(FPS) / 1000, in milliseconds
FrameDeltas == {0, 500, 1000}

\* what the device can send
DeviceMsgs ==
    { NoteOn(0, 0, 60, 100), NoteOn(0, 0, 64, 100), NoteOff(0, 0, 60), NoteOn(0, 0, 64, 0) }

\* a loop body that updates the game time before it reads the device
FrameOrder_update_first == <<"update", "midi", "events">>

\* the body of run's loop, in order; _draw and the end test follow
FrameOrder == <<"midi", "events", "update">>

PhaseAfter(p) ==
    LET i == CHOOSE j \in 1..Len(FrameOrder) : FrameOrder[j] = p
    IN  IF i < Len(FrameOrder) THEN FrameOrder[i + 1] ELSE "draw"

IdleParse == track = <<>> /\ pstate = ParseStart
IdleCalls == call = <<>> /\ ret = <<>>

\* the main thread between two calls of the tone code
MainIdle == [pc |-> "idle", tone_key |-> <<>>]

\* the tone code left out: no tone made, no warm-up thread
IdleTones ==
    /\ reverb_mix = REVERB_MIX /\ tone_cache = {} /\ pending_tones = {}
    /\ warmups = <<>> /\ main = MainIdle

NextDeltas(deltas, s) == {d \in deltas : s.game_time + d <= MaxGameTime * 500}

SessionInit(deltas) ==
    /\ files \in {fs \in Catalogues : ~initial_load(fs).raised}
    /\ STRICT \in BOOLEAN
    /\ state = initial_load(files).state
    /\ pressed = {}
    /\ inport = <<>>
    /\ dt \in deltas
    /\ pc = FrameOrder[1]
    /\ running = TRUE
    /\ stale = 0
    /\ IdleParse /\ IdleTones /\ IdleCalls

Init == SessionInit(FrameDeltas)

Alive == pc \notin {"stopped", "crashed"}

\* the device sends a message (at any moment while the app runs)
Arrive(msg) ==
    /\ Alive
    /\ Len(inport) < MaxPending
    /\ inport' = Append(inport, msg)
    /\ UNCHANGED <<files, STRICT, state, pressed, dt, pc, running, stale>>
    /\ UNCHANGED <<parseVars, callVars, toneVars>>

\* _process_midi
ProcessMidi ==
    /\ pc = "midi"
    /\ pressed' = ApplyPending(pressed, inport)
    /\ inport' = <<>>
    /\ stale' = 0
    /\ pc' = PhaseAfter("midi")
    /\ UNCHANGED <<files, STRICT, state, dt, running>>
    /\ UNCHANGED <<parseVars, callVars, toneVars>>

\* a load that also forgets the keys that are down
AfterLoad_clears(r) ==
    /\ state' = r.state
    /\ pc' = IF r.raised THEN "crashed" ELSE pc
    /\ pressed' = {}
    /\ UNCHANGED <<files, STRICT, inport, dt, running, stale>>
    /\ UNCHANGED <<parseVars, callVars, toneVars>>

\* _process_events, one event of pygame.event.get(): an uncaught exception
\* of a load ends the program
AfterLoad(r) ==
    /\ state' = r.state
    /\ pc' = IF r.raised THEN "crashed" ELSE pc
    /\ UNCHANGED <<files, STRICT, pressed, inport, dt, running, stale>>
    /\ UNCHANGED <<parseVars, callVars, toneVars>>

\* K_LEFTBRACKET, or a click on the left button
EventPreviousTrack ==
    /\ pc = "events"
    /\ state.track_count # 0
    /\ AfterLoad(previous_track(files, state))

\* K_RIGHTBRACKET, or a click on the right button
EventNextTrack ==
    /\ pc = "events"
    /\ state.track_count # 0
    /\ AfterLoad(next_track(files, state))

\* a click on the chip of file idx
EventChipClick(idx) ==
    /\ pc = "events"
    /\ AfterLoad(chip_click(files, state, idx))

\* pygame.QUIT: _process_events returns False at once
EventQuit ==
    /\ pc = "events"
    /\ running' = FALSE
    /\ pc' = PhaseAfter("events")
    /\ UNCHANGED <<files, STRICT, state, pressed, inport, dt, stale>>
    /\ UNCHANGED <<parseVars, callVars, toneVars>>

\* no event left: _process_events returns True
EventsDone ==
    /\ pc = "events"
    /\ pc' = PhaseAfter("events")
    /\ UNCHANGED <<files, STRICT, state, pressed, inport, dt, running, stale>>
    /\ UNCHANGED <<parseVars, callVars, toneVars>>

\* _update_game_time(dt)
UpdateGameTime ==
    /\ pc = "update"
    /\ state' = update_game_time(state, dt, pressed, STRICT)
    /\ pc' = PhaseAfter("update")
    /\ UNCHANGED <<files, STRICT, pressed, inport, dt, running, stale>>
    /\ UNCHANGED <<parseVars, callVars, toneVars>>

\* _draw, the end test, and the next iteration's clock.tick
EndFrame(deltas) ==
    /\ pc = "draw"
    /\ IF running /\ ~Finished(state)
       THEN /\ pc' = FrameOrder[1]
            /\ dt' \in NextDeltas(deltas, state)
            /\ stale' = Len(inport)
            /\ UNCHANGED running
       ELSE /\ pc' = "stopped"
            /\ running' = FALSE
            /\ UNCHANGED <<dt, stale>>
    /\ UNCHANGED <<files, STRICT, state, pressed, inport>>
    /\ UNCHANGED <<parseVars, callVars, toneVars>>

Next ==
    \/ \E msg \in DeviceMsgs : Arrive(msg)
    \/ ProcessMidi
    \/ EventPreviousTrack
    \/ EventNextTrack
    \/ \E idx \in 0..(Len(files) - 1) : EventChipClick(idx)
    \/ EventQuit
    \/ EventsDone
    \/ UpdateGameTime
    \/ EndFrame(FrameDeltas)

Spec == Init /\ [][Next]_vars

(***************************************************************************)
(* The session without reloads and with the clock moving: every frame's dt *)
(* is positive, the only event handling is "no event", and the run loop    *)
(* keeps taking its steps.                                                 *)
(***************************************************************************)
PositiveDeltas == {d \in FrameDeltas : d > 0}

FrameStep(deltas) == ProcessMidi \/ EventsDone \/ UpdateGameTime \/ EndFrame(deltas)

LiveNext ==
    \/ \E msg \in DeviceMsgs : Arrive(msg)
    \/ ProcessMidi
    \/ EventsDone
    \/ UpdateGameTime
    \/ EndFrame(PositiveDeltas)

LiveSpec ==
    SessionInit(PositiveDeltas) /\ [][LiveNext]_vars /\ WF_vars(FrameStep(PositiveDeltas))

(***************************************************************************)
(* What the claims speak of.                                               *)
(***************************************************************************)
\* one Tick: the step of _update_game_time
Tick == pc = "update" /\ pc' = PhaseAfter("update")

HasChord == state.chord_idx < Len(state.chords)
CurrentChord == state.chords[state.chord_idx + 1]
AnchorStart == CurrentChord[1][2]
Required == {CurrentChord[i][1] : i \in 1..Len(CurrentChord)}
AtCheckpoint == HasChord /\ state.game_time >= AnchorStart
Matched == IF STRICT THEN pressed = Required ELSE Required \subseteq pressed

\* C1: a Tick at a reached checkpoint with matching held pitches consumes the
\* chord, clears paused and advances the clock by dt, all in that Tick, also
\* when the Tick before had paused.
C1_SameTickResume ==
    [][Tick /\ AtCheckpoint /\ Matched
         => /\ state'.chord_idx = state.chord_idx + 1
            /\ state'.paused = FALSE
            /\ state'.game_time = state.game_time + dt]_vars

\* a Tick is due while the session waits, the held pitches match and dt > 0
C1_Witness ==
    pc = "update" /\ state.paused /\ AtCheckpoint /\ Matched /\ dt > 0

\* C2: a Tick at a reached checkpoint without a match ends paused and leaves
\* the clock and the chord cursor where they were, for every dt.
C2_WaitingFreezes ==
    [][Tick /\ AtCheckpoint /\ ~Matched
         => /\ state'.paused = TRUE
            /\ state'.game_time = state.game_time
            /\ state'.chord_idx = state.chord_idx]_vars

\* a second non-matching Tick in a row is due, with dt > 0
C2_Witness ==
    pc = "update" /\ state.paused /\ AtCheckpoint /\ ~Matched /\ dt > 0

\* C3: at a reached checkpoint the chord is consumed exactly when the held
\* pitches equal the chord's pitches (strict) or include them (lenient).
C3_MatchingPolicy ==
    [][Tick /\ AtCheckpoint
         => LET consumed == state'.chord_idx = state.chord_idx + 1
                extra    == pressed \ Required
                missing  == Required \ pressed
            IN  /\ consumed <=> (missing = {} /\ (STRICT => extra = {}))
                /\ state'.paused <=> ~consumed]_vars

\* an extra pitch is held over a complete chord, in strict mode and the session waits
C3_Witness ==
    /\ pc = "draw" /\ STRICT /\ state.paused /\ HasChord
    /\ Required \subseteq pressed /\ pressed # Required

\* C4: past the last chord every Tick leaves paused false and advances the
\* clock by dt whatever is held, the cursor stays at the end, and with a
\* positive total length and positive frame deltas the end test of the run
\* loop comes true.
C4_EndOfSong ==
    /\ [][Tick /\ ~HasChord
            => /\ state'.paused = FALSE
               /\ state'.game_time = state.game_time + dt
               /\ state'.chord_idx = state.chord_idx]_vars
    /\ (~HasChord /\ state.total_length > 0)
          ~> (state.game_time > state.total_length + TAIL_MS)

\* the clock has run past the tail after the last chord, with a key still held
C4_Witness ==
    /\ ~HasChord /\ state.total_length > 0 /\ pressed # {}
    /\ state.game_time > state.total_length + TAIL_MS

\* C5: a load that fails leaves every field of the session as it was before
\* the call.  (The program: the fields assigned before the raise keep their
\* new values.)
C5_AtomicLoad ==
    [][pc = "events" /\ pc' = "crashed" => state' = state]_vars

\* a file mido reads that has no track, or whose track track_index has no note
HasNoNote(trk) == \A i \in 1..Len(trk) : trk[i].type \notin {"note_on", "note_off"}
Degenerate(path, track_index) ==
    /\ path \in Paths
    /\ MidiFile(path).readable
    /\ \/ MidiFile(path).tracks = <<>>
       \/ /\ track_index + 1 \in 1..Len(MidiFile(path).tracks)
          /\ HasNoNote(MidiFile(path).tracks[track_index + 1])

\* C6: loading a well-formed file with zero tracks, or a track with zero
\* notes, raises nothing and gives no chord and a total length of 0.  (The
\* program: a file with zero tracks raises in parse_notes.)
C6_DegenerateLoads ==
    (Alive \/ pc = "crashed") /\ Degenerate(state.current_path, state.track_idx)
        => pc # "crashed" /\ state.chords = <<>> /\ state.total_length = 0

\* the loads of the run loop, and the loads GameState offers
LoadEvent ==
    EventPreviousTrack \/ EventNextTrack \/ \E idx \in 0..(Len(files) - 1) : EventChipClick(idx)

Reset(s) == s.game_time = 0 /\ s.chord_idx = 0 /\ s.paused = FALSE

LoadCalls ==
    {load_current(files, state)}
      \cup (IF state.track_count # 0
            THEN {next_track(files, state), previous_track(files, state)} ELSE {})
      \cup {select_file(files, state, i) : i \in 0..(Len(files) - 1)}

\* C8: every load that returns leaves game_time = 0, chord_idx = 0 and
\* paused = false, whatever they were: the loads of the run loop (track keys
\* and buttons, file chips), and load_current, next_track, previous_track
\* and select_file called on any session the event handling can meet.
C8_ReloadResets ==
    /\ [][LoadEvent /\ pc' # "crashed" => Reset(state')]_vars
    /\ [](pc = "events" => \A r \in LoadCalls : ~r.raised => Reset(r.state))

\* a track switch that returns is due while the session waits at a chord
C8_Witness ==
    /\ pc = "events" /\ state.paused /\ state.game_time > 0 /\ state.track_count > 1
    /\ ~next_track(files, state).raised
    /\ next_track(files, state).state.track_idx # state.track_idx

\* a file switch that returns is due after the last chord was consumed
C8_WitnessPastEnd ==
    /\ pc = "events" /\ ~HasChord /\ state.chord_idx > 0
    /\ \E i \in 0..(Len(files) - 1) : ~chip_click(files, state, i).raised

\* C9: when the Tick of a frame is evaluated, no device message that was
\* waiting when the frame began is still unapplied, and a chord the held
\* pitches complete is consumed by that Tick.
C9_FrameOrdering ==
    /\ [](pc = "update" => stale = 0)
    /\ [][Tick /\ AtCheckpoint /\ Matched
            => state'.chord_idx = state.chord_idx + 1 /\ state'.paused = FALSE]_vars

\* a frame has begun while the session waits, and the message waiting in the
\* port completes the chord
C9_Witness ==
    /\ pc = "midi" /\ stale > 0 /\ state.paused /\ AtCheckpoint /\ ~Matched
    /\ LET held == ApplyPending(pressed, SubSeq(inport, 1, stale))
       IN  IF STRICT THEN held = Required ELSE Required \subseteq held

(***************************************************************************)
(* Calls of parse_notes on its own: the file and the track index are drawn *)
(* from the files of up to MaxTracks tracks and the indexes around them.   *)
(***************************************************************************)
MaxTracks == 2

TrackPool ==
    { GoodFile.tracks[1], GoodFile.tracks[2], SilentFile.tracks[1] }

RECURSIVE TrackLists(_)
TrackLists(n) ==
    IF n = 0 THEN {<<>>}
    ELSE LET shorter == TrackLists(n - 1)
         IN  shorter \cup {Append(ts, t) : ts \in {x \in shorter : Len(x) = n - 1}, t \in TrackPool}

CallFiles == {Unreadable} \cup {MidiFileOf(ts) : ts \in TrackLists(MaxTracks)}
CallIndexes == (0 - 2)..(MaxTracks + 1)

SessionIdle ==
    /\ files = <<>> /\ STRICT = FALSE /\ state = NewGameState /\ pressed = {}
    /\ inport = <<>> /\ dt = 0 /\ pc = "idle" /\ running = FALSE /\ stale = 0

CallsInit ==
    /\ SessionIdle /\ IdleParse /\ IdleTones
    /\ call \in {[mid |-> m, track_index |-> i] : m \in CallFiles, i \in CallIndexes}
    /\ ret = <<>>

CallParseNotes ==
    /\ call # <<>> /\ ret = <<>>
    /\ ret' = <<parse_file(call.mid, call.track_index)>>
    /\ UNCHANGED <<sessionVars, parseVars, call, toneVars>>

CallsNext == CallParseNotes

CallsSpec == CallsInit /\ [][CallsNext]_vars

\* C7: parse_notes with a track index that is negative or not below the
\* file's track count raises, and what comes back holds no notes and no
\* length, for every track count, 0 included.
C7_TrackIndexOutOfRange ==
    (ret # <<>> /\ call.mid.readable
       /\ (call.track_index < 0 \/ call.track_index >= Len(call.mid.tracks)))
        => /\ ret[1].ok = FALSE
           /\ DOMAIN ret[1] = {"ok", "error"}

\* index 0 of a file without tracks was asked for, and the call raised
C7_Witness ==
    /\ ret # <<>> /\ call.mid.readable /\ call.mid.tracks = <<>>
    /\ call.track_index = 0 /\ ret[1].ok = FALSE

(***************************************************************************)
(* The loop of parse_notes on its own: the track is fed message by message *)
(* (every track of up to MaxEvents messages over TrackMsgs is reached),    *)
(* each message taking one iteration of the loop.                          *)
(***************************************************************************)
ParseKeys == { <<0, 60>>, <<1, 60>>, <<0, 64>> }
TrackDelta == 25     \* ticks between two messages of the fed track: 500 ms at 120 bpm

TrackMsgs ==
    {NoteOn(TrackDelta, k[1], k[2], v) : k \in ParseKeys, v \in {0, 64, 100}}
      \cup {NoteOff(TrackDelta, k[1], k[2]) : k \in ParseKeys}

TempoMapOf(trk) == build_tempo_map(MidiFileOf(<<trk>>))

ParseInit == SessionIdle /\ IdleCalls /\ IdleParse /\ IdleTones

Feed(msg) ==
    /\ pc = "idle"
    /\ Len(track) < MaxEvents
    /\ track' = Append(track, msg)
    /\ pstate' = ParseMsg(pstate, msg, TempoMapOf(Append(track, msg)), TPQ)
    /\ UNCHANGED <<sessionVars, callVars, toneVars>>

ParseNext == \E msg \in TrackMsgs : Feed(msg)

ParseSpec == ParseInit /\ [][ParseNext]_vars

(***************************************************************************)
(* Pairing, told by counting instead of queues.                            *)
(***************************************************************************)
Opens(m) == m.type = "note_on" /\ m.velocity > 0
Closes(m) == m.type = "note_off" \/ (m.type = "note_on" /\ m.velocity = 0)
KeyOf(m) == <<m.channel, m.note>>

RECURSIVE TickAt(_, _)
TickAt(trk, i) == IF i = 0 THEN 0 ELSE TickAt(trk, i - 1) + trk[i].time
TimeAt(trk, i) == ticks_to_seconds(TickAt(trk, i), TempoMapOf(trk), TPQ)

\* the note-ons, and the closing events, of key k among trk[1..i]
OnCount(trk, k, i) == Cardinality({j \in 1..i : Opens(trk[j]) /\ KeyOf(trk[j]) = k})
CloseCount(trk, k, i) == Cardinality({j \in 1..i : Closes(trk[j]) /\ KeyOf(trk[j]) = k})
\* the position of the n-th note-on of key k
NthOn(trk, k, n) ==
    CHOOSE j \in 1..Len(trk) : Opens(trk[j]) /\ KeyOf(trk[j]) = k /\ OnCount(trk, k, j) = n

\* the closing events of key k among trk[1..i] that found a note-on of k open
RECURSIVE ClosedCount(_, _, _)
ClosedCount(trk, k, i) ==
    IF i = 0 THEN 0
    ELSE LET c == ClosedCount(trk, k, i - 1)
         IN  IF Closes(trk[i]) /\ KeyOf(trk[i]) = k /\ OnCount(trk, k, i - 1) > c
             THEN c + 1 ELSE c

EntryOf(trk, on, off) ==
    <<trk[off].note, TimeAt(trk, on), TimeAt(trk, off), trk[on].velocity>>

\* the entries when the n-th closing event that finds its key open closes the
\* key's n-th note-on, in the order of the closing events
RECURSIVE PairedEntries(_, _)
PairedEntries(trk, i) ==
    IF i = 0 THEN <<>>
    ELSE LET k == KeyOf(trk[i])
             n == ClosedCount(trk, k, i)
         IN  PairedEntries(trk, i - 1)
               \o (IF Closes(trk[i]) /\ n > ClosedCount(trk, k, i - 1)
                   THEN <<EntryOf(trk, NthOn(trk, k, n), i)>> ELSE <<>>)

\* the entries when the n-th closing event of a key, counting every closing
\* event of the key, closes the key's n-th note-on
RECURSIVE CountedEntries(_, _)
CountedEntries(trk, i) ==
    IF i = 0 THEN <<>>
    ELSE LET k == KeyOf(trk[i])
             n == CloseCount(trk, k, i)
         IN  CountedEntries(trk, i - 1)
               \o (IF Closes(trk[i]) /\ OnCount(trk, k, i - 1) >= n
                   THEN <<EntryOf(trk, NthOn(trk, k, n), i)>> ELSE <<>>)

\* the note-ons of key k left open after trk, oldest first
RECURSIVE OpenFrom(_, _, _)
OpenFrom(trk, k, n) ==
    IF n > OnCount(trk, k, Len(trk)) THEN <<>>
    ELSE LET j == NthOn(trk, k, n)
         IN  << <<TimeAt(trk, j), trk[j].velocity>> >> \o OpenFrom(trk, k, n + 1)

\* C10 as stated: the k-th closing event of a key is paired with the k-th
\* note-on of that key.  (A closing event that finds nothing open is dropped
\* and pairs with nothing, so the closing events after it are one ahead.)
C10_FifoPairing_Stated == pstate.notes = CountedEntries(track, Len(track))

\* C10, amended: the k-th closing event of a key that finds a note-on of that
\* key open closes the key's k-th note-on; the entry carries that note-on's
\* start time and velocity and the closing event's time; the note-ons left
\* open are the later ones of the key, oldest first.
C10_FifoPairing ==
    /\ pstate.notes = PairedEntries(track, Len(track))
    /\ \A k \in Keys :
         pstate.note_on_events[k] = OpenFrom(track, k, ClosedCount(track, k, Len(track)) + 1)

\* two note-ons of one key, then two closing events of it: both closed, the
\* older first, with a closing event of another key in no role
C10_Witness ==
    /\ Len(track) = 4
    /\ Opens(track[1]) /\ Opens(track[2]) /\ Closes(track[3]) /\ Closes(track[4])
    /\ \A i \in 1..4 : KeyOf(track[i]) = <<0, 60>>
    /\ track[1].velocity # track[2].velocity
    /\ Len(pstate.notes) = 2
    /\ pstate.notes[1] = <<60, 500, 1500, track[1].velocity>>
    /\ pstate.notes[2] = <<60, 1000, 2000, track[2].velocity>>

(***************************************************************************)
(* Calls of group_chords on its own: the note entries are drawn ascending  *)
(* by start (parse_notes sorts them), up to MaxNotes of them, the window   *)
(* from config's value, a narrower one and 0.                              *)
(***************************************************************************)
MaxNotes == 5

StartTimes == {0, 20, 50, 80, 90, 200}
Windows == {HIT_WINDOW_MS, 30, 0}

\* the entry at position i of the list: (note, start, end, velocity)
NoteAt(i, start) == <<59 + i, start, start + 500, 100>>

RECURSIVE AscendingNotes(_)
AscendingNotes(n) ==
    IF n = 0 THEN {<<>>}
    ELSE LET shorter == AscendingNotes(n - 1)
         IN  shorter \cup
             {Append(ns, NoteAt(n, t)) :
                 <<ns, t>> \in {p \in {x \in shorter : Len(x) = n - 1} \X StartTimes :
                                  p[1] = <<>> \/ p[1][Len(p[1])][2] <= p[2]}}

GroupInit ==
    /\ SessionIdle /\ IdleParse /\ IdleTones
    /\ call \in {[notes |-> ns, window |-> w] : ns \in AscendingNotes(MaxNotes), w \in Windows}
    /\ ret = <<>>

CallGroupChords ==
    /\ call # <<>> /\ ret = <<>>
    /\ ret' = <<group_chords(call.notes, call.window)>>
    /\ UNCHANGED <<sessionVars, parseVars, call, toneVars>>

GroupNext == CallGroupChords

GroupSpec == GroupInit /\ [][GroupNext]_vars

StartOf(entry) == entry[2]
StartsOf(chord) == [i \in 1..Len(chord) |-> StartOf(chord[i])]

RECURSIVE Flatten(_)
Flatten(chords) == IF chords = <<>> THEN <<>> ELSE Head(chords) \o Flatten(Tail(chords))

\* C11: the chords are the note entries cut into consecutive non-empty runs;
\* every entry of a chord starts at most the window after the chord's first
\* entry (its anchor), and the first entry of every later chord starts more
\* than the window after the anchor of the chord before it, whatever its gap
\* to the entry before it; starts 0, 20, 50, 90, 200 ms with window 80 ms
\* give the chords [0, 20, 50], [90], [200].
C11_AnchorSplit ==
    ret # <<>> =>
        LET chords == ret[1]
            w      == call.window
        IN  /\ Flatten(chords) = call.notes
            /\ \A c \in 1..Len(chords) :
                 /\ chords[c] # <<>>
                 /\ \A i \in 1..Len(chords[c]) :
                      StartOf(chords[c][i]) - StartOf(chords[c][1]) <= w
                 /\ c > 1 => StartOf(chords[c][1]) > StartOf(chords[c - 1][1]) + w
            /\ (w = 80 /\ StartsOf(call.notes) = <<0, 20, 50, 90, 200>>)
                 => /\ Len(chords) = 3
                    /\ StartsOf(chords[1]) = <<0, 20, 50>>
                    /\ StartsOf(chords[2]) = <<90>>
                    /\ StartsOf(chords[3]) = <<200>>

\* grouped: an entry 40 ms after the entry before it, but 90 ms after the
\* anchor, opened a chord of its own
C11_Witness ==
    /\ ret # <<>> /\ call.window = 80
    /\ StartsOf(call.notes) = <<0, 20, 50, 90, 200>>
    /\ Len(ret[1]) = 3 /\ StartsOf(ret[1][2]) = <<90>>

(***************************************************************************)
(* Calls of build_tempo_map and ticks_to_seconds on their own.  The file   *)
(* has two tracks: the first holds up to MaxTempoEvents messages, the      *)
(* second at most one; a message is a set_tempo or a note-on, 0, 1 or 2    *)
(* beats after the message before it.  The tick asked for lies within      *)
(* MaxBeats beats.                                                         *)
(***************************************************************************)
MaxTempoEvents == 2
MaxBeats == 3

TempoValues == {250000, 1000000}
TempoGaps == {0, TPQ, 2 * TPQ}
TempoMsgs ==
    {SetTempo(d, us) : d \in TempoGaps, us \in TempoValues} \cup {NoteOn(TPQ, 0, 60, 100)}

RECURSIVE TempoTracks(_)
TempoTracks(n) ==
    IF n = 0 THEN {<<>>}
    ELSE LET shorter == TempoTracks(n - 1)
         IN  shorter \cup {Append(t, m) : t \in {x \in shorter : Len(x) = n - 1}, m \in TempoMsgs}

TempoFiles ==
    {MidiFileOf(<<a, b>>) : a \in TempoTracks(MaxTempoEvents), b \in TempoTracks(1)}
AbsTicks == {t \in 0..(MaxBeats * TPQ) : t % 5 = 0}

TempoInit ==
    /\ SessionIdle /\ IdleParse /\ IdleTones
    /\ call \in {[mid |-> m, abs_tick |-> t] : m \in TempoFiles, t \in AbsTicks}
    /\ ret = <<>>

CallBuildTempoMap ==
    /\ call # <<>> /\ ret = <<>>
    /\ ret' = <<build_tempo_map(call.mid)>>
    /\ UNCHANGED <<sessionVars, parseVars, call, toneVars>>

CallTicksToSeconds ==
    /\ call # <<>> /\ Len(ret) = 1
    /\ ret' = <<ret[1], ticks_to_seconds(call.abs_tick, ret[1], call.mid.ticks_per_beat)>>
    /\ UNCHANGED <<sessionVars, parseVars, call, toneVars>>

TempoNext == CallBuildTempoMap \/ CallTicksToSeconds

TempoSpec == TempoInit /\ [][TempoNext]_vars

\* the milliseconds of a run of ticks at one tempo
SegmentMs(ticks, tempo, tpq) == (ticks * tempo) \div (1000 * tpq)

\* the milliseconds before breakpoint i: the segments before it, each at its own tempo
RECURSIVE ElapsedBefore(_, _, _)
ElapsedBefore(tm, i, tpq) ==
    IF i = 1 THEN 0
    ELSE ElapsedBefore(tm, i - 1, tpq) + SegmentMs(tm[i][1] - tm[i - 1][1], tm[i - 1][2], tpq)

\* the set_tempo events of the file in scan order, each with its absolute tick
RECURSIVE TempoEventsOf(_, _)
TempoEventsOf(trk, i) ==
    IF i = 0 THEN <<>>
    ELSE TempoEventsOf(trk, i - 1)
           \o (IF trk[i].type = "set_tempo" THEN << <<TickAt(trk, i), trk[i].tempo>> >> ELSE <<>>)

ScanOrder(mid) ==
    Flatten([k \in 1..Len(mid.tracks) |-> TempoEventsOf(mid.tracks[k], Len(mid.tracks[k]))])

\* C12: the seconds of a tick >= 0 are those of the breakpoint with the
\* greatest tick <= it, plus the ticks past that breakpoint at its tempo; a
\* breakpoint's seconds are the sum of the segments before it, each at its
\* own tempo; without tempo events one beat is 0.5 s, and with breakpoints
\* (0, 500000), (2 beats, 250000) three beats are 1.25 s.
C12_TickToSeconds ==
    Len(ret) = 2 =>
        LET tm  == ret[1]
            t   == call.abs_tick
            tpq == call.mid.ticks_per_beat
        IN  /\ \A i \in 1..Len(tm) : tm[i][3] = ElapsedBefore(tm, i, tpq)
            /\ \E i \in 1..Len(tm) :
                 /\ tm[i][1] <= t
                 /\ \A j \in 1..Len(tm) : tm[j][1] <= t => tm[j][1] <= tm[i][1]
                 /\ ret[2] = ElapsedBefore(tm, i, tpq) + SegmentMs(t - tm[i][1], tm[i][2], tpq)
            /\ (ScanOrder(call.mid) = <<>> /\ t = tpq) => ret[2] = 500
            /\ (ScanOrder(call.mid) = << <<2 * tpq, 250000>> >> /\ t = 3 * tpq)
                 => ret[2] = 1250

\* three beats were converted over the breakpoints (0, 500000), (2 beats, 250000)
C12_Witness ==
    /\ Len(ret) = 2
    /\ ret[1] = << <<0, 500000, 0>>, <<2 * TPQ, 250000, 1000>> >>
    /\ call.abs_tick = 3 * TPQ /\ ret[2] = 1250

\* C13: every tick that carries a tempo event has one breakpoint, whose
\* tempo is that of the last event at the tick in scan order (tracks in file
\* order, events in track order); tick 0 keeps the default 500000 only when
\* no event is at tick 0.
C13_EqualTickCollision ==
    ret # <<>> =>
        LET tm == ret[1]
            ev == ScanOrder(call.mid)
        IN  /\ \A e \in 1..Len(ev) :
                 Cardinality({i \in 1..Len(tm) : tm[i][1] = ev[e][1]}) = 1
            /\ \A i \in 1..Len(tm) :
                 LET at == {e \in 1..Len(ev) : ev[e][1] = tm[i][1]}
                 IN  IF at = {} THEN tm[i][1] = 0 /\ tm[i][2] = 500000
                     ELSE \E e \in at : (\A f \in at : f <= e) /\ tm[i][2] = ev[e][2]

\* a map was built from a file with an event at tick 0 and, at a later tick,
\* one event in each track, of different tempo
C13_Witness ==
    /\ ret # <<>>
    /\ LET a == TempoEventsOf(call.mid.tracks[1], Len(call.mid.tracks[1]))
           b == TempoEventsOf(call.mid.tracks[2], Len(call.mid.tracks[2]))
       IN  /\ \E e \in 1..Len(a) : a[e][1] = 0
           /\ \E e \in 1..Len(a) : b # <<>> /\ a[e][1] = b[1][1] /\ a[e][1] > 0 /\ a[e][2] # b[1][2]

\* C20: the tempo map is non-empty, its ticks increase strictly, its first
\* breakpoint is at tick 0 with 0 seconds and is the only one at tick 0, its
\* seconds never decrease, and without tempo events it is the single
\* breakpoint (0, 500000, 0).
C20_TempoMapStructure ==
    ret # <<>> =>
        LET tm == ret[1]
        IN  /\ Len(tm) >= 1
            /\ \A i \in 1..(Len(tm) - 1) : tm[i][1] < tm[i + 1][1] /\ tm[i][3] <= tm[i + 1][3]
            /\ tm[1][1] = 0 /\ tm[1][3] = 0
            /\ Cardinality({i \in 1..Len(tm) : tm[i][1] = 0}) = 1
            /\ ScanOrder(call.mid) = <<>> => tm = << <<0, 500000, 0>> >>

\* a map of three breakpoints was built from three events that come out of
\* tick order in the scan, two of them on one tick
C20_Witness ==
    /\ ret # <<>> /\ Len(ret[1]) = 3
    /\ LET ev == ScanOrder(call.mid)
       IN  /\ Len(ev) = 3
           /\ \E e \in 1..2 : ev[e][1] > ev[e + 1][1]
           /\ \E e, f \in 1..3 : e # f /\ ev[e][1] = ev[f][1]

(***************************************************************************)
(* The session on the file of two close chords, with frames that stall:    *)
(* clock.tick returns whatever time the frame took, and run hands it to    *)
(* _update_game_time as it is.                                             *)
(***************************************************************************)
StallDeltas == FrameDeltas \cup {4000}

StallInit ==
    /\ files = <<"dense.mid">>
    /\ STRICT \in BOOLEAN
    /\ state = initial_load(files).state
    /\ pressed = {}
    /\ inport = <<>>
    /\ dt \in StallDeltas
    /\ pc = FrameOrder[1]
    /\ running = TRUE
    /\ stale = 0
    /\ IdleParse /\ IdleTones /\ IdleCalls

StallNext ==
    \/ \E msg \in DeviceMsgs : Arrive(msg)
    \/ ProcessMidi
    \/ EventNextTrack
    \/ \E idx \in 0..(Len(files) - 1) : EventChipClick(idx)
    \/ EventsDone
    \/ UpdateGameTime
    \/ EndFrame(StallDeltas)

StallSpec == StallInit /\ [][StallNext]_vars

\* what a parse and a grouping of (path, track_index) give, with no session at hand
FreshChords(path, track_index) ==
    group_chords(parse_notes(path, track_index).notes, HIT_WINDOW_MS)
FreshLength(path, track_index) == parse_notes(path, track_index).total_length

\* C14: the chords and the total length a session holds once a frame's events
\* are handled (nothing loads later in the frame) are those a parse and
\* grouping of its (path, track) give on their own, whatever was parsed,
\* loaded or played before; a load that returns (a step of the event handling
\* that stays in it) with the (path, track) already loaded leaves both as
\* they were.
C14_IdempotentRebuild ==
    /\ [](pc = "update"
            => /\ parse_notes(state.current_path, state.track_idx).ok
               /\ state.chords = FreshChords(state.current_path, state.track_idx)
               /\ state.total_length = FreshLength(state.current_path, state.track_idx))
    /\ [][(/\ pc = "events" /\ pc' = "events"
           /\ state'.current_path = state.current_path
           /\ state'.track_idx = state.track_idx)
            => /\ state'.chords = state.chords
               /\ state'.total_length = state.total_length]_vars

\* a load of the same (path, track) is due after a chord was consumed and the
\* clock has run
C14_Witness ==
    /\ pc = "events" /\ state.chord_idx > 0 /\ state.game_time > 0 /\ state.track_count # 0
    /\ LET r == next_track(files, state)
       IN  /\ ~r.raised /\ r.state.chords # <<>>
           /\ r.state.current_path = state.current_path
           /\ r.state.track_idx = state.track_idx

\* C15 as stated, its last part: with no chord and a total length of 0 the
\* end test of the run loop holds once the first frame is done.  (The end
\* test asks for a total length other than 0.)
C15_EmptySequence_Stated ==
    (pc = "draw" /\ state.chords = <<>> /\ state.total_length = 0) => Finished(state)

\* C15, amended: with no chord the session never pauses and every Tick
\* advances the clock by dt; the total length is then 0, and the run loop,
\* whose end test asks for a total length other than 0, does not end on its
\* own.
C15_EmptySequence ==
    /\ [][Tick /\ state.chords = <<>>
            => /\ state'.paused = FALSE
               /\ state'.game_time = state.game_time + dt
               /\ state'.chord_idx = state.chord_idx]_vars
    /\ [](state.chords = <<>>
            => ~state.paused /\ state.total_length = 0)
    /\ [][pc = "draw" /\ state.chords = <<>> /\ running => pc' # "stopped"]_vars

\* a session without chords has run past the two seconds of the tail and its
\* loop goes on
C15_Witness ==
    /\ pc = FrameOrder[1] /\ running /\ state.chords = <<>>
    /\ state.game_time > TAIL_MS /\ state.current_path = "silent.mid"

\* C16: the chord cursor stays within 0..len(chords), the clock and the total
\* length stay >= 0, and a Tick that ends not paused advances the clock by
\* exactly dt, however large.
C16_PlaybackInvariant ==
    /\ [](/\ 0 <= state.chord_idx /\ state.chord_idx <= Len(state.chords)
          /\ state.game_time >= 0
          /\ state.total_length >= 0)
    /\ [][Tick /\ ~state'.paused => state'.game_time = state.game_time + dt]_vars

\* a Tick that will not pause is due after a frame that took four seconds,
\* the clock already running
C16_Witness ==
    /\ pc = "update" /\ dt = 4000 /\ state.game_time > 0
    /\ ~(AtCheckpoint /\ ~Matched)

\* C17: whenever the end test of the run loop holds, every chord has been
\* consumed.  (The program: run passes the frame's dt on as it is, and a Tick
\* that advances the clock can carry it past the chords left and the tail.)
C17_FinishAfterLastChord ==
    Finished(state) => state.chord_idx = Len(state.chords)

\* C18: a Tick that starts before the anchor of the chord due ends not
\* paused, advances the clock by dt and leaves the chord cursor, whatever is
\* held.
C18_FreeRunning ==
    [][Tick /\ HasChord /\ state.game_time < AnchorStart
         => /\ state'.paused = FALSE
            /\ state'.game_time = state.game_time + dt
            /\ state'.chord_idx = state.chord_idx]_vars

\* a Tick is due before the anchor while the chord is already held
C18_Witness ==
    /\ pc = "update" /\ HasChord /\ state.game_time < AnchorStart
    /\ Matched /\ pressed # {} /\ dt > 0

\* C19: apart from loads, the chord cursor changes only in a Tick, by +1,
\* and only when the clock has reached the anchor of the chord at the cursor
\* and the held pitches match that chord.
C19_InOrderConsumption ==
    [][(state'.chord_idx # state.chord_idx /\ ~LoadEvent)
         => /\ Tick
            /\ state'.chord_idx = state.chord_idx + 1
            /\ AtCheckpoint /\ Matched]_vars

\* a Tick is due with a match when the clock has passed the anchors of the
\* chord at the cursor and of the chord after it, which the held pitches
\* match as well
C19_Witness ==
    /\ pc = "update" /\ state.chord_idx + 1 < Len(state.chords)
    /\ AtCheckpoint /\ Matched
    /\ LET next == state.chords[state.chord_idx + 2]
       IN  /\ state.game_time >= next[1][2]
           /\ {next[i][1] : i \in 1..Len(next)} = pressed

\* C21: for every ascending list and window >= 0 the chords are non-empty,
\* every entry starts at most the window after its chord's first entry, the
\* chords concatenated in order are the input list, and the anchors of the
\* chords ascend strictly.
C21_OrderPreservingPartition ==
    ret # <<>> =>
        LET chords == ret[1]
        IN  /\ \A c \in 1..Len(chords) : Len(chords[c]) >= 1
            /\ \A c \in 1..Len(chords) : \A e \in 1..Len(chords[c]) :
                 chords[c][e][2] - chords[c][1][2] <= call.window
            /\ Flatten(chords) = call.notes
            /\ \A c \in 1..(Len(chords) - 1) : chords[c][1][2] < chords[c + 1][1][2]

\* grouped with window 0: entries of equal start share a chord, and a later
\* entry opens the next
C21_Witness ==
    /\ ret # <<>> /\ call.window = 0 /\ Len(call.notes) = MaxNotes
    /\ Len(ret[1]) >= 2
    /\ \E c \in 1..Len(ret[1]) : Len(ret[1][c]) >= 2

\* the message the step feeds to the loop of parse_notes
Fed == track'[Len(track')]
Feeds == Len(track') = Len(track) + 1

\* C22: a closing event (note-off, or note-on of velocity 0) that finds no
\* note-on of its (channel, pitch) pending emits no entry and leaves every
\* pending list and the emitted entries as they were; a note-on that comes
\* after it is closed only by a closing event that comes later still.
C22_UnmatchedClosingDropped ==
    [][(Feeds /\ Closes(Fed) /\ pstate.note_on_events[KeyOf(Fed)] = <<>>)
         => /\ pstate'.notes = pstate.notes
            /\ pstate'.note_on_events = pstate.note_on_events]_vars

\* a closing event of a key, then a note-on of it, then a closing event: one
\* entry, from the note-on to the second closing event
C22_Witness ==
    /\ Len(track) = 3
    /\ Closes(track[1]) /\ Opens(track[2]) /\ Closes(track[3])
    /\ \A i \in 1..3 : KeyOf(track[i]) = <<0, 60>>
    /\ pstate.notes = << <<60, 1000, 1500, track[2].velocity>> >>
    /\ \A k \in Keys : pstate.note_on_events[k] = <<>>

(***************************************************************************)
(* Calls of parse_notes on files of two tracks.  Track 0 holds up to       *)
(* MaxTimedNotes note messages, each 0 or 1 beat after the message before  *)
(* it: note-ons of 60 (velocity 100) and 64 (velocity 127), note-offs of   *)
(* both, and a note-on of 60 with velocity 0.  Track 1 holds at most one   *)
(* set_tempo, at tick 0 or one beat in.  Track 0 is the one parsed.        *)
(***************************************************************************)
MaxTimedNotes == 4

TimedMsgs ==
    {NoteOn(d, 0, 60, 100) : d \in {0, TPQ}} \cup {NoteOn(d, 0, 64, 127) : d \in {0, TPQ}}
      \cup {NoteOff(d, 0, 60) : d \in {0, TPQ}} \cup {NoteOff(TPQ, 0, 64), NoteOn(TPQ, 0, 60, 0)}

RECURSIVE TimedTracks(_)
TimedTracks(n) ==
    IF n = 0 THEN {<<>>}
    ELSE LET shorter == TimedTracks(n - 1)
         IN  shorter \cup {Append(t, m) : t \in {x \in shorter : Len(x) = n - 1}, m \in TimedMsgs}

TimingTempoTracks == {<<>>} \cup {<<SetTempo(d, us)>> : d \in {0, TPQ}, us \in TempoValues}

TimingFiles ==
    {MidiFileOf(<<a, b>>) : a \in TimedTracks(MaxTimedNotes), b \in TimingTempoTracks}

TimingInit ==
    /\ SessionIdle /\ IdleParse /\ IdleTones
    /\ call \in {[mid |-> m, track_index |-> 0] : m \in TimingFiles}
    /\ ret = <<>>

TimingSpec == TimingInit /\ [][CallsNext]_vars

\* the ticks at which a tempo starts to hold: 0 and the ticks of the set_tempo
\* events of every track
BreakTicks(mid) ==
    {0} \cup {ScanOrder(mid)[j][1] : j \in 1..Len(ScanOrder(mid))}

\* the tempo that holds from break b on: that of the last set_tempo in scan
\* order at that tick, or 120 bpm where tick 0 has none
TempoFrom(mid, b) ==
    LET ev == ScanOrder(mid)
        at == {j \in 1..Len(ev) : ev[j][1] = b}
    IN  IF at = {} THEN DEFAULT_TEMPO
        ELSE ev[CHOOSE j \in at : \A k \in at : k <= j][2]

\* the milliseconds from break b to tick, each stretch at the tempo that holds in it
RECURSIVE MsFrom(_, _, _)
MsFrom(mid, tick, b) ==
    LET later == {x \in BreakTicks(mid) : b < x /\ x < tick}
    IN  IF later = {} THEN SegmentMs(tick - b, TempoFrom(mid, b), mid.ticks_per_beat)
        ELSE LET n == CHOOSE x \in later : \A y \in later : x <= y
             IN  SegmentMs(n - b, TempoFrom(mid, b), mid.ticks_per_beat) + MsFrom(mid, tick, n)

GlobalMs(mid, tick) == MsFrom(mid, tick, 0)

\* the pairs of trk[1..i] in the order of their closing events, in ticks:
\* (pitch, tick of the note-on, tick of the closing event, velocity of the note-on)
RECURSIVE TickEntries(_, _)
TickEntries(trk, i) ==
    IF i = 0 THEN <<>>
    ELSE LET k == KeyOf(trk[i])
             n == ClosedCount(trk, k, i)
         IN  TickEntries(trk, i - 1)
               \o (IF Closes(trk[i]) /\ n > ClosedCount(trk, k, i - 1)
                   THEN << <<trk[i].note, TickAt(trk, NthOn(trk, k, n)), TickAt(trk, i),
                             trk[NthOn(trk, k, n)].velocity>> >>
                   ELSE <<>>)

\* the pairs of the parsed track, timed by the tempo events of the whole file
Emitted(mid, trk) ==
    LET te == TickEntries(trk, Len(trk))
    IN  [j \in 1..Len(te) |->
           <<te[j][1], GlobalMs(mid, te[j][2]), GlobalMs(mid, te[j][3]), te[j][4]>>]

Parsed == ret # <<>> /\ ret[1].ok
ParsedTrack == call.mid.tracks[call.track_index + 1]
TimedTicks == {t \in 0..(MaxTimedNotes * TPQ) : t % 5 = 0}

\* C23: every entry parse_notes returns has end >= start >= 0 and a velocity
\* in 1..127 that is the velocity of a note-on of its pitch in the track
\* (never that of the closing event), whatever the tempo events of the file;
\* ticks_to_seconds does not decrease as the tick grows, across breakpoints.
C23_NoteEntryWellFormed ==
    Parsed =>
        /\ \A i \in 1..Len(ret[1].notes) :
             LET e == ret[1].notes[i]
             IN  /\ e[3] >= e[2] /\ e[2] >= 0
                 /\ e[4] \in 1..127
                 /\ e[1] \in 0..127
                 /\ \E j \in 1..Len(ParsedTrack) :
                      /\ Opens(ParsedTrack[j])
                      /\ ParsedTrack[j].note = e[1]
                      /\ ParsedTrack[j].velocity = e[4]
        /\ LET tempo_map == build_tempo_map(call.mid)
            IN  \A t \in TimedTicks \ {0} :
                  ticks_to_seconds(t - 5, tempo_map, call.mid.ticks_per_beat)
                    <= ticks_to_seconds(t, tempo_map, call.mid.ticks_per_beat)

\* a note closed by a note-off and a note closed by a note-on of velocity 0,
\* under a tempo change
C23_Witness ==
    /\ Parsed /\ Len(ret[1].notes) = 2
    /\ call.mid.tracks[2] = <<SetTempo(TPQ, 1000000)>>
    /\ ParsedTrack = <<NoteOn(0, 0, 60, 100), NoteOff(TPQ, 0, 60),
                       NoteOn(0, 0, 60, 100), NoteOn(TPQ, 0, 60, 0)>>
    /\ ret[1].notes = << <<60, 0, 500, 100>>, <<60, 500, 1500, 100>> >>

\* the entries of s whose start is t, in the order they have in s
StartingAt(s, t) == LET Test(e) == e[2] = t IN SelectSeq(s, Test)

\* C24: the entries parse_notes returns are in ascending order of start,
\* entries of equal start are in the order of their closing events, and
\* total_length is the greatest end of the entries, or 0 when there are none.
C24_SortedStableLength ==
    Parsed =>
        LET notes == ret[1].notes
            emitted == Emitted(call.mid, ParsedTrack)
        IN  /\ Len(notes) = Len(emitted)
            /\ \A i \in 1..(Len(notes) - 1) : notes[i][2] <= notes[i + 1][2]
            /\ \A j \in 1..Len(emitted) :
                 StartingAt(notes, emitted[j][2]) = StartingAt(emitted, emitted[j][2])
            /\ IF notes = <<>> THEN ret[1].total_length = 0
               ELSE /\ \E i \in 1..Len(notes) : ret[1].total_length = notes[i][3]
                    /\ \A i \in 1..Len(notes) : notes[i][3] <= ret[1].total_length

\* 60 and 64 start together; 64 is closed first and stays first
C24_Witness ==
    /\ Parsed
    /\ ParsedTrack = <<NoteOn(0, 0, 60, 100), NoteOn(0, 0, 64, 127),
                       NoteOff(TPQ, 0, 64), NoteOff(0, 0, 60)>>
    /\ call.mid.tracks[2] = <<>>
    /\ ret[1].notes = << <<64, 0, 500, 127>>, <<60, 0, 500, 100>> >>
    /\ ret[1].total_length = 500

\* C25: the events of the selected track are timed by the tempo events of
\* all tracks of the file: every returned entry is a pair of the track with
\* its ticks converted under the file-wide tempo events, so a set_tempo
\* that only track 1 holds moves the times of the track-0 entries that lie
\* after its tick away from their times at 120 bpm.
C25_TempoIsGlobal ==
    Parsed =>
        LET notes == ret[1].notes
            te == TickEntries(ParsedTrack, Len(ParsedTrack))
            other == call.mid.tracks[2]
        IN  /\ Len(notes) = Len(te)
            /\ \A j \in 1..Len(te) : \E i \in 1..Len(notes) :
                 notes[i] = <<te[j][1], GlobalMs(call.mid, te[j][2]),
                              GlobalMs(call.mid, te[j][3]), te[j][4]>>
            /\ other # <<>> =>
                 \A j \in 1..Len(te) :
                   te[j][3] > other[1].time =>
                     \E i \in 1..Len(notes) :
                       /\ notes[i][1] = te[j][1]
                       /\ notes[i][3] = SegmentMs(other[1].time, DEFAULT_TEMPO, TPQ)
                                          + SegmentMs(te[j][3] - other[1].time, other[1].tempo, TPQ)
                       /\ notes[i][3] # SegmentMs(te[j][3], DEFAULT_TEMPO, TPQ)

\* track 1 doubles the tempo one beat in; the note of track 0 from beat 1 to
\* beat 2 lasts 250 ms
C25_Witness ==
    /\ Parsed
    /\ call.mid.tracks[2] = <<SetTempo(TPQ, 250000)>>
    /\ ParsedTrack = <<NoteOn(TPQ, 0, 60, 100), NoteOff(TPQ, 0, 60)>>
    /\ ret[1].notes = << <<60, 500, 750, 100>> >>

\* C26: the matcher reads the held pitches as they are and leaves them as
\* they are, and no step of event handling (a load among them) changes them;
\* so in lenient mode a Tick at which the held pitches include the pitches
\* of the chord waited for ends with paused false, and consumes that chord
\* when its checkpoint is reached, with no key pressed anew.
C26_HeldPitchesCarryOver ==
    /\ [][pc = "events" => pressed' = pressed]_vars
    /\ [][Tick => pressed' = pressed]_vars
    /\ [][(Tick /\ ~STRICT /\ (HasChord => Required \subseteq pressed))
            => /\ state'.paused = FALSE
               /\ AtCheckpoint => state'.chord_idx = state.chord_idx + 1]_vars

\* 60 is still down from the first chord when the second, also 60, is due
C26_Witness ==
    /\ pc = "update" /\ ~STRICT /\ pressed = {60} /\ inport = <<>>
    /\ state.chord_idx = 1 /\ ~state.paused /\ AtCheckpoint
    /\ Required = {60}

(***************************************************************************)
(* group_chords, one step per iteration of its outer while.  The list is   *)
(* any list of up to MaxNotes entries, in ascending order or not; ret      *)
(* holds the loop's index (counted from 0, as in the code) and chords.     *)
(***************************************************************************)
LoopStarts == {0, 50, 90}

RECURSIVE AnyNotes(_)
AnyNotes(n) ==
    IF n = 0 THEN {<<>>}
    ELSE LET shorter == AnyNotes(n - 1)
         IN  shorter \cup
             {Append(ns, NoteAt(n, t)) : ns \in {x \in shorter : Len(x) = n - 1}, t \in LoopStarts}

GroupLoopInit ==
    /\ SessionIdle /\ IdleParse /\ IdleTones
    /\ call \in {[notes |-> ns, window |-> w] : ns \in AnyNotes(MaxNotes), w \in Windows}
    /\ ret = <<>>

\* chords = [], index = 0
GroupEnter ==
    /\ call # <<>> /\ ret = <<>>
    /\ ret' = <<[index |-> 0, chords |-> <<>>, returned |-> FALSE]>>
    /\ UNCHANGED <<sessionVars, parseVars, call, toneVars>>

\* one pass of `while index < len(notes)`
GroupIterate ==
    /\ ret # <<>> /\ ~ret[1].returned
    /\ ret[1].index < Len(call.notes)
    /\ LET index  == ret[1].index
           cursor == ChordEnd(call.notes, index + 1, call.notes[index + 1][2], call.window) - 1
       IN  ret' = <<[ret[1] EXCEPT !.chords = Append(@, SubSeq(call.notes, index + 1, cursor)),
                                   !.index = cursor]>>
    /\ UNCHANGED <<sessionVars, parseVars, call, toneVars>>

\* the while test fails: return chords
GroupReturn ==
    /\ ret # <<>> /\ ~ret[1].returned
    /\ ~(ret[1].index < Len(call.notes))
    /\ ret' = <<[ret[1] EXCEPT !.returned = TRUE]>>
    /\ UNCHANGED <<sessionVars, parseVars, call, toneVars>>

GroupLoopNext == GroupEnter \/ GroupIterate \/ GroupReturn

GroupLoopSpec == GroupLoopInit /\ [][GroupLoopNext]_vars /\ WF_vars(GroupLoopNext)

InLoop == ret # <<>> /\ ~ret[1].returned

\* C27: for every list and every window >= 0 each pass of the outer loop of
\* group_chords moves index forward by at least the anchor entry and adds
\* one non-empty chord, so there are never more chords than entries and the
\* loop returns with index at the end of the list.
C27_GroupingTerminates ==
    /\ [][(InLoop /\ ret' # <<>> /\ ~ret'[1].returned)
            => /\ ret'[1].index > ret[1].index
               /\ Len(ret'[1].chords) = Len(ret[1].chords) + 1
               /\ Len(ret'[1].chords[Len(ret'[1].chords)]) >= 1]_vars
    /\ [](ret # <<>> => /\ Len(ret[1].chords) <= Len(call.notes)
                        /\ ret[1].index <= Len(call.notes))
    /\ <>(ret # <<>> /\ ret[1].returned /\ ret[1].index = Len(call.notes))

\* window 0 and no two neighbours starting together: as many passes as entries
C27_Witness ==
    /\ ret # <<>> /\ ret[1].returned
    /\ call.window = 0 /\ Len(call.notes) = MaxNotes
    /\ Len(ret[1].chords) = Len(call.notes)

(***************************************************************************)
(* A GameState object on its own: constructed over a catalogue, then any   *)
(* sequence of load_current, next_track, previous_track and select_file    *)
(* (of an index of the catalogue) until one of them raises, with frames of *)
(* the matcher in between.  call holds the last call, ret whether it       *)
(* raised.                                                                 *)
(***************************************************************************)
ObjectCatalogues == Catalogues \cup { <<"good.mid", "dense.mid", "silent.mid">> }

ObjectInit ==
    /\ files \in ObjectCatalogues
    /\ STRICT = FALSE /\ state = NewGameState /\ pressed = {}
    /\ inport = <<>> /\ dt = 0 /\ pc = "idle" /\ running = FALSE /\ stale = 0
    /\ IdleParse /\ IdleTones /\ IdleCalls

NoRaise == IF ret = <<>> THEN TRUE ELSE ~ret[1].raised

MethodCall(method, index, r) ==
    /\ state' = r.state
    /\ call' = [method |-> method, index |-> index]
    /\ ret' = <<[raised |-> r.raised]>>
    /\ UNCHANGED <<files, STRICT, pressed, inport, dt, pc, running, stale>>
    /\ UNCHANGED <<parseVars, toneVars>>

CallLoadCurrent ==
    /\ NoRaise
    /\ MethodCall("load_current", 0, load_current(files, state))

CallNextTrack ==
    /\ NoRaise
    /\ MethodCall("next_track", 0, next_track(files, state))

CallPreviousTrack ==
    /\ NoRaise
    /\ MethodCall("previous_track", 0, previous_track(files, state))

CallSelectFile(index) ==
    /\ NoRaise
    /\ MethodCall("select_file", index, select_file(files, state, index))

\* between two calls the owner of the object runs a frame of the matcher,
\* with nothing held or with 60 and 64 held
OwnerTick(delta, held) ==
    /\ NoRaise
    /\ MethodCall("_update_game_time", 0, Returned(update_game_time(state, delta, held, FALSE)))

ObjectNext ==
    \/ CallLoadCurrent
    \/ CallNextTrack
    \/ CallPreviousTrack
    \/ \E index \in 0..(Len(files) - 1) : CallSelectFile(index)
    \/ \E delta \in NextDeltas({500, 1000}, state), held \in {{}, {60, 64}} : OwnerTick(delta, held)

ObjectSpec == ObjectInit /\ [][ObjectNext]_vars

Calls(method) == call' # <<>> /\ call'.method = method
LastTrack == Max2(0, state.track_count - 1)

\* C28: after every sequence of load_current, next_track, previous_track and
\* select_file calls none of which raised, 0 <= track_idx <= max(0,
\* track_count - 1), track_count being that of the file loaded; next_track
\* on the last track and previous_track on the first leave track_idx as it
\* is, and with track_count 0 both change nothing.
C28_TrackIndexSaturates ==
    /\ [](NoRaise =>
            /\ 0 <= state.track_idx /\ state.track_idx <= LastTrack
            /\ state.current_path # "None" =>
                 state.track_count = Len(MidiFile(state.current_path).tracks))
    /\ [][(Calls("next_track") /\ ~ret'[1].raised /\ state.track_idx = LastTrack)
            => state'.track_idx = state.track_idx]_vars
    /\ [][(Calls("previous_track") /\ ~ret'[1].raised /\ state.track_idx = 0)
            => state'.track_idx = state.track_idx]_vars
    /\ [][((Calls("next_track") \/ Calls("previous_track")) /\ state.track_count = 0)
            => state' = state /\ ~ret'[1].raised]_vars

\* next_track has been called on the last of two tracks, and track 1 is
\* still the one loaded
C28_Witness ==
    /\ NoRaise /\ call # <<>> /\ call.method = "next_track"
    /\ state.track_count = 2 /\ state.track_idx = 1
    /\ state.game_time = 0 /\ state.chord_idx = 0

(***************************************************************************)
(* The tone cache: _set_reverb_mix and _get_tone on the main thread, and   *)
(* the warm-up threads (_warmup_tones), one started by __init__ and one by *)
(* each _set_reverb_mix.  A reverb mix is in thousandths; round(x, 2) is   *)
(* in hundredths.  A tone is the reverb mix it was made with; an entry of  *)
(* tone_cache is (note, mix of the key, tone).  Each `with _tone_lock`     *)
(* block is one step.                                                      *)
(***************************************************************************)
MaxReverbChanges == 2

\* the mixes the slider is set to (none half-way between two hundredths)
MixValues == {300, 350, 354}
\* the notes warmed up, nearest to the middle of the keyboard first
WarmupNotes == <<64, 60>>

\* round(x, 2)
Round2(x) == (x + 5) \div 10

\* tone_cache[key] = tone
CacheStore(cache, key, tone) ==
    {e \in cache : <<e[1], e[2]>> # key} \cup {<<key[1], key[2], tone>>}
CacheKeys(cache) == {<<e[1], e[2]>> : e \in cache}

NewWarmup == [pc |-> "start", tone_key_mix |-> 0, todo |-> <<>>, tone |-> 0]
\* the thread after `continue` or the end of the loop body
NextNote(w) ==
    IF Len(w.todo) > 1 THEN [w EXCEPT !.pc = "claim", !.todo = Tail(@), !.tone = 0]
    ELSE [pc |-> "done", tone_key_mix |-> 0, todo |-> <<>>, tone |-> 0]
WarmupKey(w) == <<Head(w.todo), w.tone_key_mix>>

ToneInit ==
    /\ SessionIdle /\ IdleParse /\ IdleCalls
    /\ reverb_mix = REVERB_MIX /\ tone_cache = {} /\ pending_tones = {}
    /\ warmups = <<NewWarmup>>
    /\ main = MainIdle

\* _set_reverb_mix: self.reverb_mix = clamp(value, 0.0, 1.0)
SetReverbMix(value) ==
    /\ main.pc = "idle"
    /\ Len(warmups) <= MaxReverbChanges
    /\ reverb_mix' = clamp(value, 0, 1000)
    /\ main' = [main EXCEPT !.pc = "set_reverb_mix"]
    /\ UNCHANGED <<tone_cache, pending_tones, warmups>>
    /\ UNCHANGED <<sessionVars, parseVars, callVars>>

\* _set_reverb_mix: the locked clear, then _start_warmup_thread
SetReverbClear ==
    /\ main.pc = "set_reverb_mix"
    /\ tone_cache' = {}
    /\ pending_tones' = {}
    /\ warmups' = Append(warmups, NewWarmup)
    /\ main' = MainIdle
    /\ UNCHANGED reverb_mix
    /\ UNCHANGED <<sessionVars, parseVars, callVars>>

\* _get_tone: the key and the locked lookup; a hit returns the cached tone
GetToneLookup(note) ==
    /\ main.pc = "idle"
    /\ LET tone_key == <<note, Round2(reverb_mix)>>
       IN  main' = IF tone_key \in CacheKeys(tone_cache) THEN main
                   ELSE [pc |-> "get_tone", tone_key |-> tone_key]
    /\ UNCHANGED <<reverb_mix, tone_cache, pending_tones, warmups>>
    /\ UNCHANGED <<sessionVars, parseVars, callVars>>

\* _get_tone: make_piano_tone(note, reverb_mix=tone_key[1]) and the locked store
GetToneStore ==
    /\ main.pc = "get_tone"
    /\ tone_cache' = CacheStore(tone_cache, main.tone_key, main.tone_key[2] * 10)
    /\ main' = MainIdle
    /\ UNCHANGED <<reverb_mix, pending_tones, warmups>>
    /\ UNCHANGED <<sessionVars, parseVars, callVars>>

\* _warmup_tones: tone_key_mix = round(self.reverb_mix, 2) and the note list
WarmupStart(t) ==
    /\ warmups[t].pc = "start"
    /\ warmups' = [warmups EXCEPT ![t] = [pc |-> "claim", tone_key_mix |-> Round2(reverb_mix),
                                          todo |-> WarmupNotes, tone |-> 0]]
    /\ UNCHANGED <<reverb_mix, tone_cache, pending_tones, main>>
    /\ UNCHANGED <<sessionVars, parseVars, callVars>>

\* the first locked block of the loop body
WarmupClaim(t) ==
    /\ warmups[t].pc = "claim"
    /\ LET key == WarmupKey(warmups[t])
       IN  IF key \in CacheKeys(tone_cache) \/ key \in pending_tones
           THEN /\ warmups' = [warmups EXCEPT ![t] = NextNote(@)]
                /\ UNCHANGED pending_tones
           ELSE /\ warmups' = [warmups EXCEPT ![t].pc = "synth"]
                /\ pending_tones' = pending_tones \cup {key}
    /\ UNCHANGED <<reverb_mix, tone_cache, main>>
    /\ UNCHANGED <<sessionVars, parseVars, callVars>>

\* make_piano_tone(note, reverb_mix=self.reverb_mix): the mix is read now
WarmupSynth(t) ==
    /\ warmups[t].pc = "synth"
    /\ warmups' = [warmups EXCEPT ![t].pc = "store", ![t].tone = reverb_mix]
    /\ UNCHANGED <<reverb_mix, tone_cache, pending_tones, main>>
    /\ UNCHANGED <<sessionVars, parseVars, callVars>>

\* make_piano_tone raises: the key is no longer pending, next note
WarmupSynthRaises(t) ==
    /\ warmups[t].pc = "synth"
    /\ pending_tones' = pending_tones \ {WarmupKey(warmups[t])}
    /\ warmups' = [warmups EXCEPT ![t] = NextNote(@)]
    /\ UNCHANGED <<reverb_mix, tone_cache, main>>
    /\ UNCHANGED <<sessionVars, parseVars, callVars>>

\* the last locked block of the loop body
WarmupStore(t) ==
    /\ warmups[t].pc = "store"
    /\ tone_cache' = IF Round2(reverb_mix) = warmups[t].tone_key_mix
                     THEN CacheStore(tone_cache, WarmupKey(warmups[t]), warmups[t].tone)
                     ELSE tone_cache
    /\ pending_tones' = pending_tones \ {WarmupKey(warmups[t])}
    /\ warmups' = [warmups EXCEPT ![t] = NextNote(@)]
    /\ UNCHANGED <<reverb_mix, main>>
    /\ UNCHANGED <<sessionVars, parseVars, callVars>>

ToneNext ==
    \/ \E value \in MixValues : SetReverbMix(value)
    \/ SetReverbClear
    \/ \E note \in {60, 64} : GetToneLookup(note)
    \/ GetToneStore
    \/ \E t \in 1..Len(warmups) : WarmupStart(t)
    \/ \E t \in 1..Len(warmups) : WarmupClaim(t)
    \/ \E t \in 1..Len(warmups) : WarmupSynth(t)
    \/ \E t \in 1..Len(warmups) : WarmupSynthRaises(t)
    \/ \E t \in 1..Len(warmups) : WarmupStore(t)

ToneSpec == ToneInit /\ [][ToneNext]_vars

\* C29: however the warm-up threads interleave with _set_reverb_mix and
\* _get_tone, every tone in tone_cache under key (note, m) was made with a
\* reverb mix that rounds to m, and once _set_reverb_mix has returned every
\* key of tone_cache has m equal to the rounded reverb mix of the moment.
\* (The program: a warm-up thread makes its tone with the mix of the moment
\* of the call and files it under the mix of the moment it started.)
C29_ToneCacheConsistent ==
    /\ \A e \in tone_cache : Round2(e[3]) = e[2]
    /\ main.pc # "set_reverb_mix" =>
         \A e \in tone_cache : e[2] = Round2(reverb_mix)

====
